---- MODULE Spec2Model ----
(***************************************************************************)
(* Plant monitor dashboard (PlantMonitorUI).  Two variants of the program  *)
(* are modelled: the standalone one (src/main.py), whose timer handler     *)
(* draws the sensor reading itself, and the client/server one              *)
(* (src/main2.py), whose timer handler asks a socket server for it.        *)
(*                                                                         *)
(* Numbers.  Sensor values are kept in tenths (temperature 30 is 300,      *)
(* ph 6.0 is 60), so that the values just below and just above every       *)
(* threshold exist.  Time is an integer count of clock units; a second is  *)
(* SubSec units and an hour SecPerHour seconds (a scaled clock: datetime   *)
(* has 10^6 units per second and 3600 seconds per hour).  The clock never  *)
(* steps backwards: Advance only moves it forward.                         *)
(***************************************************************************)
EXTENDS Integers, Sequences, FiniteSets, TLC

VARIABLES
    variant,            \* "standalone" (main.py) or "client" (main2.py)
    now,                \* the wall clock, what datetime.now() returns
    startup,            \* the clock value read by __init__
    last_watered,       \* self.last_watered
    watering_history,   \* self.watering_history: formatted timestamps
    history_text,       \* self.history_text: the lines shown
    gauges,             \* the five HexagonWidget.value texts
    plant_ai_text,      \* self.plant_ai_text
    op,                 \* history variable: the handler that ran last
    calls,              \* history variable: number of water_plant calls
    ticked,             \* history variable: a tick has completed without error
    sensor_data,        \* evaluator harness: the reading handed to generate_plant_message
    evaluated,          \* evaluator harness: generate_plant_message has returned
    result              \* evaluator harness: the string it returned

vars == <<variant, now, startup, last_watered, watering_history, history_text,
          gauges, plant_ai_text, op, calls, ticked, sensor_data, evaluated, result>>

monitorVars == <<now, startup, last_watered, watering_history, history_text,
                 gauges, plant_ai_text, op, calls, ticked>>

evalVars == <<sensor_data, evaluated, result>>

Variants == {"standalone", "client"}

Keys == <<"humidity", "temperature", "moisture", "ph", "light">>

(***************************************************************************)
(* Thresholds of generate_plant_message, in tenths.                        *)
(***************************************************************************)
TempHigh == 300
TempLow == 200
HumidityLow == 400
HumidityHigh == 700
MoistureLow == 300
MoistureHigh == 800
LightLow == 3000
LightHigh == 8000
PhLow == 60
PhHigh == 70

MsgHot == "Whew, it's getting hot in here!"
MsgCold == "Brr, I'm feeling a bit chilly."
MsgDry == "I'm feeling a bit dry. Could use some mist!"
MsgHumid == "It's quite humid today. I feel like I'm in a rainforest!"
MsgThirsty == "I'm thirsty! Could you water me, please?"
MsgTooWet == "Whoa, easy on the water there! I'm not a fish."
MsgDark == "It's a bit dark here. I could use some more light to grow."
MsgBright == "Wow, it's bright! I feel like I'm on a beach vacation."
MsgAcidic == "The soil's a bit acidic. Maybe some lime would help?"
MsgAlkaline == "The soil's a bit alkaline. Perhaps some sulfur would balance things out?"
MsgPerfect == "Everything's just perfect! I'm one happy plant!"

(***************************************************************************)
(* generate_plant_message: one if/elif per metric appends at most one      *)
(* message to the list; the ph block exists in main2.py only.              *)
(***************************************************************************)
temperature_rule_inclusive(d) ==
    IF d.temperature >= TempHigh THEN <<MsgHot>>
    ELSE IF d.temperature <= TempLow THEN <<MsgCold>>
    ELSE <<>>

temperature_rule(d) ==
    IF d.temperature > TempHigh THEN <<MsgHot>>
    ELSE IF d.temperature < TempLow THEN <<MsgCold>>
    ELSE <<>>

humidity_rule_ranged(d) ==
    IF d.humidity < 0 \/ d.humidity > 1000 THEN <<>>
    ELSE IF d.humidity < HumidityLow THEN <<MsgDry>>
    ELSE IF d.humidity > HumidityHigh THEN <<MsgHumid>>
    ELSE <<>>

humidity_rule(d) ==
    IF d.humidity < HumidityLow THEN <<MsgDry>>
    ELSE IF d.humidity > HumidityHigh THEN <<MsgHumid>>
    ELSE <<>>

moisture_rule(d) ==
    IF d.moisture < MoistureLow THEN <<MsgThirsty>>
    ELSE IF d.moisture > MoistureHigh THEN <<MsgTooWet>>
    ELSE <<>>

light_rule(d) ==
    IF d.light < LightLow THEN <<MsgDark>>
    ELSE IF d.light > LightHigh THEN <<MsgBright>>
    ELSE <<>>

ph_rule_swapped(v, d) ==
    IF v = "client"
    THEN IF d.ph < PhLow THEN <<MsgAlkaline>>
         ELSE IF d.ph > PhHigh THEN <<MsgAcidic>>
         ELSE <<>>
    ELSE <<>>

ph_rule(v, d) ==
    IF v = "client"
    THEN IF d.ph < PhLow THEN <<MsgAcidic>>
         ELSE IF d.ph > PhHigh THEN <<MsgAlkaline>>
         ELSE <<>>
    ELSE <<>>

\* The list `messages` as it stands at the return statement.
messages(v, d) ==
    LET fired == temperature_rule(d) \o humidity_rule(d) \o moisture_rule(d)
                 \o light_rule(d) \o ph_rule(v, d)
    IN  IF fired = <<>> THEN <<MsgPerfect>> ELSE fired

choice_first(seq) == {seq[1]}

\* random.choice(seq): the values it can return.
choice(seq) == {seq[i] : i \in 1..Len(seq)}

generate_plant_message(v, d) == choice(messages(v, d))


(***************************************************************************)
(* The clock.  Interval is timedelta(hours=24) and Period the QTimer       *)
(* interval of 2000 ms, both in clock units.                               *)
(***************************************************************************)
SubSec == 2
SecPerHour == 1
MaxIntervals == 1
MaxHistory == 3
MaxSkew == 1

IntervalHours == 24
TimerMs == 2000
HistoryTail == 5

Interval == IntervalHours * SecPerHour * SubSec
Period == (TimerMs * SubSec) \div 1000
MaxTime == MaxIntervals * Interval + Period + 1

\* The instants at which the model lets an event happen: those next to a
\* whole number of intervals after startup, where the due check changes.
TimeGrid ==
    {t \in 0..MaxTime :
        (t % Interval) \in {0, 1, Period, Period + 1, Interval - 1}}

\* strftime("%Y-%m-%d %H:%M:%S"): the sub-second part is dropped.  The
\* fixed-width string is represented by the whole seconds it spells, which
\* order as the strings do.
FormatTime(t) == t \div SubSec

InitialLastWatered_now(t) == t

\* datetime.now() - timedelta(hours=24)
InitialLastWatered(t) == t - Interval

isWateringDue_inclusive(t) == t - last_watered >= Interval

\* datetime.now() - self.last_watered > timedelta(hours=24)
isWateringDue(t) == t - last_watered > Interval

\* self.watering_history[-5:]
update_history_text(h) ==
    IF Len(h) <= HistoryTail THEN h ELSE SubSeq(h, Len(h) - HistoryTail + 1, Len(h))

water_plant_stale(t) ==
    /\ last_watered' = last_watered
    /\ watering_history' = Append(watering_history, FormatTime(t))
    /\ history_text' = update_history_text(watering_history')
    /\ calls' = calls + 1

water_plant_prepend(t) ==
    /\ last_watered' = t
    /\ watering_history' = <<FormatTime(t)>> \o watering_history
    /\ history_text' = update_history_text(watering_history')
    /\ calls' = calls + 1

\* water_plant, with t the value its datetime.now() returns.
water_plant(t) ==
    /\ last_watered' = t
    /\ watering_history' = Append(watering_history, FormatTime(t))
    /\ history_text' = update_history_text(watering_history')
    /\ calls' = calls + 1

(***************************************************************************)
(* Gauge texts.  A text is kept as the number it shows, the decimals it    *)
(* shows it with, and the suffix.                                          *)
(***************************************************************************)
Text(n, dec, unit) == [num |-> n, dec |-> dec, unit |-> unit]

\* f"{x:.0f}" of a value given in tenths: round half to even.
Round0(v) ==
    LET q == v \div 10
        r == v % 10
    IN  IF r > 5 \/ (r = 5 /\ q % 2 = 1) THEN q + 1 ELSE q

\* main.py: the integers are shown as they are, ph with its one decimal.
FormatStandalone(k, x) ==
    CASE k = "humidity" -> Text(x \div 10, 0, "%")
      [] k = "temperature" -> Text(x \div 10, 0, "degC")
      [] k = "moisture" -> Text(x \div 10, 0, "%")
      [] k = "ph" -> Text(x, 1, "")
      [] k = "light" -> Text(x \div 10, 0, " lux")

\* main2.py: .1f, and .0f for light; the degree sign is mis-encoded there.
FormatClient(k, x) ==
    CASE k = "humidity" -> Text(x, 1, "%")
      [] k = "temperature" -> Text(x, 1, "AdegC")
      [] k = "moisture" -> Text(x, 1, "%")
      [] k = "ph" -> Text(x, 1, "")
      [] k = "light" -> Text(Round0(x), 0, " lux")

KeySet == {Keys[i] : i \in 1..Len(Keys)}

Reading(h, t, m, p, l) ==
    [humidity |-> h, temperature |-> t, moisture |-> m, ph |-> p, light |-> l]

\* Readings main.py's updateValues can draw (randint / uniform ranges).
StandaloneReadings ==
    {Reading(h, 220, 600, p, 5000) : h \in {300, 550}, p \in {55, 65}}

\* Readings read_sensors can return.
NominalReading == Reading(550, 250, 600, 65, 5005)

ServerReadings == {NominalReading, Reading(300, 350, 600, 55, 5015)}

\* What the client's sendall / recv / json.loads can come back with.
Replies ==
    {[kind |-> k, data |-> Reading(0, 0, 0, 0, 0), absent |-> {}, nulls |-> {}] :
        k \in {"io_error", "undecodable", "null"}}
    \cup {[kind |-> "object", data |-> d, absent |-> {}, nulls |-> {}] : d \in ServerReadings}
    \cup {[kind |-> "object", data |-> NominalReading, absent |-> {k}, nulls |-> {}] :
            k \in KeySet}
    \cup {[kind |-> "object", data |-> NominalReading, absent |-> {}, nulls |-> {k}] :
            k \in KeySet}

NoReading == Reading(0, 0, 0, 0, 0)

Op(kind, ok, due) == [kind |-> kind, ok |-> ok, due |-> due]

Init ==
    /\ variant \in Variants
    /\ startup \in 0..(SubSec - 1)
    /\ now = startup
    /\ last_watered = InitialLastWatered(startup)
    /\ watering_history = <<>>
    /\ history_text = <<>>
    /\ gauges = [k \in KeySet |-> Text(0, 0, "")]
    /\ plant_ai_text = ""
    /\ op = Op("init", TRUE, FALSE)
    /\ calls = 0
    /\ ticked = FALSE
    /\ sensor_data = NoReading
    /\ evaluated = FALSE
    /\ result = ""

\* Time passes between two events.
Advance ==
    /\ \E t \in TimeGrid : t > now /\ now' = t
    /\ op' = Op("advance", TRUE, FALSE)
    /\ UNCHANGED <<variant, startup, last_watered, watering_history, history_text,
                   gauges, plant_ai_text, calls, ticked>>
    /\ UNCHANGED evalVars

manual_water_if_due ==
    /\ Len(watering_history) < MaxHistory
    /\ IF isWateringDue(now)
       THEN water_plant(now)
       ELSE UNCHANGED <<last_watered, watering_history, history_text, calls>>
    /\ op' = Op("manual", TRUE, isWateringDue(now))
    /\ UNCHANGED <<variant, now, startup, gauges, plant_ai_text, ticked>>
    /\ UNCHANGED evalVars

\* The "Water Now" button: manual_water calls water_plant.
manual_water ==
    /\ Len(watering_history) < MaxHistory
    /\ water_plant(now)
    /\ op' = Op("manual", TRUE, isWateringDue(now))
    /\ UNCHANGED <<variant, now, startup, gauges, plant_ai_text, ticked>>
    /\ UNCHANGED evalVars

\* The tail of updateValues: the due check, then water_plant, whose own
\* datetime.now() is read up to MaxSkew units after the check's.
WaterIfDue ==
    IF isWateringDue(now)
    THEN /\ Len(watering_history) < MaxHistory
         /\ \E skew \in 0..MaxSkew :
                /\ now + skew <= MaxTime
                /\ now' = now + skew
                /\ water_plant(now + skew)
    ELSE UNCHANGED <<now, last_watered, watering_history, history_text, calls>>

\* main.py: the timer's handler.
updateValues ==
    /\ variant = "standalone"
    /\ now >= startup + Period
    /\ \E d \in StandaloneReadings :
          /\ gauges' = [k \in KeySet |-> FormatStandalone(k, d[k])]
          /\ plant_ai_text' \in generate_plant_message(variant, d)
    /\ WaterIfDue
    /\ op' = Op("tick", TRUE, isWateringDue(now))
    /\ ticked' = TRUE
    /\ UNCHANGED <<variant, startup>>
    /\ UNCHANGED evalVars

\* main2.py: the i-th setValue of updateValues runs when the reply decoded
\* to an object and every field up to the i-th is there and is a number.
FieldOk(r, i) == r.kind = "object" /\ Keys[i] \notin (r.absent \cup r.nulls)

Reached(r, i) == \A j \in 1..i : FieldOk(r, j)

Completes(r) == Reached(r, Len(Keys))

KeyIndex(k) == CHOOSE i \in 1..Len(Keys) : Keys[i] = k

\* main2.py: the timer's handler, a try block around the whole body.
updateValuesClient ==
    /\ variant = "client"
    /\ now >= startup + Period
    /\ \E r \in Replies :
          /\ gauges' = [k \in KeySet |->
                          IF Reached(r, KeyIndex(k)) THEN FormatClient(k, r.data[k])
                          ELSE gauges[k]]
          /\ IF Completes(r)
             THEN /\ plant_ai_text' \in generate_plant_message(variant, r.data)
                  /\ WaterIfDue
                  /\ op' = Op("tick", TRUE, isWateringDue(now))
                  /\ ticked' = TRUE
             ELSE /\ op' = Op("tick", FALSE, FALSE)
                  /\ UNCHANGED <<now, last_watered, watering_history, history_text,
                                 calls, plant_ai_text, ticked>>
    /\ UNCHANGED <<variant, startup>>
    /\ UNCHANGED evalVars

Next == Advance \/ manual_water \/ updateValues \/ updateValuesClient

Spec == Init /\ [][Next]_vars


(***************************************************************************)
(* generate_plant_message on its own: a reading is drawn, the function is  *)
(* applied to it once.  The monitor's state stays as constructed.          *)
(***************************************************************************)
TemperatureSamples == {150, 199, 200, 250, 300, 301, 350}
HumiditySamples == {-50, 200, 399, 400, 550, 700, 701, 1050}
MoistureSamples == {-50, 299, 300, 600, 800, 801, 1050}
PhSamples == {-5, 55, 59, 60, 65, 70, 71, 75, 145}
LightSamples == {1000, 2999, 3000, 5000, 8000, 8001, 10000}

EvalReadings ==
    {Reading(h, t, m, p, l) : h \in HumiditySamples, t \in TemperatureSamples,
                              m \in MoistureSamples, p \in PhSamples, l \in LightSamples}

InitEval ==
    /\ variant \in Variants
    /\ startup = 0
    /\ now = startup
    /\ last_watered = InitialLastWatered(startup)
    /\ watering_history = <<>>
    /\ history_text = <<>>
    /\ gauges = [k \in KeySet |-> Text(0, 0, "")]
    /\ plant_ai_text = ""
    /\ op = Op("init", TRUE, FALSE)
    /\ calls = 0
    /\ ticked = FALSE
    /\ sensor_data \in EvalReadings
    /\ evaluated = FALSE
    /\ result = ""

Evaluate ==
    /\ ~evaluated
    /\ result' \in generate_plant_message(variant, sensor_data)
    /\ evaluated' = TRUE
    /\ UNCHANGED <<variant, sensor_data>>
    /\ UNCHANGED monitorVars

NextEval == Evaluate

SpecEval == InitEval /\ [][NextEval]_vars

(***************************************************************************)
(* Vocabulary of the properties.                                           *)
(***************************************************************************)
AllMessages ==
    {MsgHot, MsgCold, MsgDry, MsgHumid, MsgThirsty, MsgTooWet, MsgDark, MsgBright,
     MsgAcidic, MsgAlkaline, MsgPerfect}

\* The messages whose threshold rule fires for reading d in variant v.
RulesFired(v, d) ==
    {m \in AllMessages :
        \/ m = MsgHot /\ d.temperature > 300
        \/ m = MsgCold /\ d.temperature < 200
        \/ m = MsgDry /\ d.humidity < 400
        \/ m = MsgHumid /\ d.humidity > 700
        \/ m = MsgThirsty /\ d.moisture < 300
        \/ m = MsgTooWet /\ d.moisture > 800
        \/ m = MsgDark /\ d.light < 3000
        \/ m = MsgBright /\ d.light > 8000
        \/ m = MsgAcidic /\ v = "client" /\ d.ph < 60
        \/ m = MsgAlkaline /\ v = "client" /\ d.ph > 70}

NominalTemperature(d) == d.temperature \in 200..300
NominalHumidity(d) == d.humidity \in 400..700
NominalMoisture(d) == d.moisture \in 300..800
NominalLight(d) == d.light \in 3000..8000
NominalPh(d) == d.ph \in 60..70

NominalButPh(d) ==
    NominalTemperature(d) /\ NominalHumidity(d) /\ NominalMoisture(d) /\ NominalLight(d)

AllNominal(d) == NominalButPh(d) /\ NominalPh(d)

\* x, in tenths, is outside the documented range 0..hi.
OutOfRange(x, hi) == x < 0 \/ x > hi

Last(h) == h[Len(h)]

\* The instant a formatted timestamp denotes: the start of its second.
ParseTime(s) == s * SubSec

MaxOf(h) == CHOOSE x \in {h[i] : i \in 1..Len(h)} : \A j \in 1..Len(h) : h[j] <= x

TickCompleted == op'.kind = "tick" /\ op'.ok

TickFailed == op'.kind = "tick" /\ ~op'.ok

Watered == Len(watering_history') = Len(watering_history) + 1

(***************************************************************************)
(* C1.  generate_plant_message returns exactly one of the fixed messages:  *)
(* the "perfect" one iff no threshold rule of the variant fired, otherwise *)
(* a message whose rule fired; and every fired message can be the result.  *)
(***************************************************************************)
C1_OneFiredMessage ==
    LET fired == RulesFired(variant, sensor_data)
        possible == IF fired = {} THEN {MsgPerfect} ELSE fired
    IN  /\ evaluated =>
            /\ result \in AllMessages
            /\ result = MsgPerfect <=> fired = {}
            /\ result \in possible
        /\ ~evaluated => \A m \in possible : ENABLED (Evaluate /\ result' = m)

\* temperature 35 and humidity 20, the rest nominal: the second of the two
\* fired messages was returned.
C1_Witness ==
    /\ evaluated
    /\ sensor_data = Reading(200, 350, 600, 65, 5000)
    /\ result = MsgDry

(***************************************************************************)
(* C2.  A reading with every metric inside its nominal band, the band's    *)
(* ends included, always yields the "perfect" message.                     *)
(***************************************************************************)
C2_NominalIsPerfect ==
    evaluated /\ AllNominal(sensor_data) => result = MsgPerfect

\* Every metric exactly on a threshold.
C2_Witness ==
    /\ evaluated
    /\ sensor_data = Reading(400, 300, 800, 70, 3000)
    /\ result = MsgPerfect

(***************************************************************************)
(* C3 as stated.  In every variant, ph < 6.0 with the rest nominal yields  *)
(* the "acidic" message and ph > 7.0 the "alkaline" one.                   *)
(***************************************************************************)
C3_Original ==
    evaluated /\ NominalButPh(sensor_data) =>
        /\ sensor_data.ph < 60 => result = MsgAcidic
        /\ sensor_data.ph > 70 => result = MsgAlkaline

(***************************************************************************)
(* C3 amended.  The client/server variant applies the ph rule as stated;   *)
(* the standalone variant has no ph rule and yields the "perfect" message  *)
(* for such a reading.                                                     *)
(***************************************************************************)
C3_PhRuleInClientOnly ==
    evaluated /\ NominalButPh(sensor_data) =>
        /\ variant = "client" =>
              /\ sensor_data.ph < 60 => result = MsgAcidic
              /\ sensor_data.ph > 70 => result = MsgAlkaline
        /\ variant = "standalone" => result = MsgPerfect

C3_Witness ==
    /\ evaluated
    /\ variant = "client"
    /\ sensor_data = Reading(550, 250, 600, 59, 5000)
    /\ result = MsgAcidic

(***************************************************************************)
(* C4 as stated.  A reading whose only abnormal field is a value outside   *)
(* its documented range (humidity, moisture outside 0..100, ph outside     *)
(* 0..14) yields the "perfect" message.                                    *)
(***************************************************************************)
C4_Original ==
    LET d == sensor_data
    IN  /\ evaluated /\ OutOfRange(d.humidity, 1000) /\ NominalTemperature(d)
           /\ NominalMoisture(d) /\ NominalLight(d) /\ NominalPh(d)
           => result = MsgPerfect
        /\ evaluated /\ OutOfRange(d.moisture, 1000) /\ NominalTemperature(d)
           /\ NominalHumidity(d) /\ NominalLight(d) /\ NominalPh(d)
           => result = MsgPerfect
        /\ evaluated /\ OutOfRange(d.ph, 140) /\ NominalButPh(d)
           => result = MsgPerfect

(***************************************************************************)
(* C4 amended.  An out-of-range value is compared with the thresholds like *)
(* any other: below the range it fires the metric's low rule and above it  *)
(* the high rule (for ph in the client/server variant only; the standalone *)
(* variant never looks at ph).                                             *)
(***************************************************************************)
C4_OutOfRangeFiresRule ==
    LET d == sensor_data
    IN  /\ evaluated /\ NominalTemperature(d) /\ NominalMoisture(d)
           /\ NominalLight(d) /\ NominalPh(d) =>
              /\ d.humidity < 0 => result = MsgDry
              /\ d.humidity > 1000 => result = MsgHumid
        /\ evaluated /\ NominalTemperature(d) /\ NominalHumidity(d)
           /\ NominalLight(d) /\ NominalPh(d) =>
              /\ d.moisture < 0 => result = MsgThirsty
              /\ d.moisture > 1000 => result = MsgTooWet
        /\ evaluated /\ NominalButPh(d) =>
              /\ d.ph < 0 =>
                    result = (IF variant = "client" THEN MsgAcidic ELSE MsgPerfect)
              /\ d.ph > 140 =>
                    result = (IF variant = "client" THEN MsgAlkaline ELSE MsgPerfect)

C4_Witness ==
    /\ evaluated
    /\ sensor_data = Reading(-50, 250, 600, 65, 5000)
    /\ result = MsgDry


(***************************************************************************)
(* C5.  On a tick that completes, the due check is true iff strictly more  *)
(* than the interval has elapsed since last_watered, and the tick waters   *)
(* iff the check is true; right after any watering the check is false.     *)
(***************************************************************************)
C5_DueIffStrictlyElapsed ==
    [][/\ TickCompleted =>
            /\ op'.due <=> (now - last_watered > Interval)
            /\ Watered <=> op'.due
       /\ calls' # calls => ~(now' - last_watered' > Interval)]_vars

\* A completed tick at exactly the interval after the last watering, which
\* found the watering not due.
C5_Witness ==
    /\ op.kind = "tick" /\ op.ok /\ ~op.due
    /\ watering_history # <<>>
    /\ now - last_watered = Interval

C8_ManualAlwaysWaters ==
    [][op'.kind = "manual" =>
            /\ watering_history' = Append(watering_history, FormatTime(now))
            /\ last_watered' = now
            /\ calls' = calls + 1]_vars

\* A manual watering less than 24 hours after the previous watering.
C8_Witness ==
    /\ op.kind = "manual" /\ ~op.due
    /\ Len(watering_history) >= 2
    /\ last_watered = now

(***************************************************************************)
(* C9 as stated.  In the client/server variant a tick whose acquisition    *)
(* fails leaves the five gauges, the advisory text, last_watered and       *)
(* watering_history as they were.                                          *)
(***************************************************************************)
C9_Original ==
    [][TickFailed =>
            UNCHANGED <<gauges, plant_ai_text, last_watered, watering_history>>]_vars

(***************************************************************************)
(* C10 as stated.  The first tick that completes always records exactly    *)
(* one watering; any tick records one only when strictly more than 24      *)
(* hours have passed since the last watering, and never more than one.     *)
(***************************************************************************)
C10_Original ==
    [][TickCompleted =>
            /\ ~ticked => Watered
            /\ ticked /\ watering_history' # watering_history =>
                    Watered /\ now - last_watered > Interval]_vars

(***************************************************************************)
(* C10 amended.  The first tick that completes records exactly one         *)
(* watering provided no manual watering came before it; every completed    *)
(* tick records one watering when strictly more than 24 hours have passed  *)
(* since last_watered and none otherwise.                                  *)
(***************************************************************************)
C10_FirstTickWatersUnlessManual ==
    [][TickCompleted =>
            /\ ~ticked /\ calls = 0 => Watered
            /\ IF now - last_watered > Interval
               THEN Watered
               ELSE watering_history' = watering_history]_vars

\* The only watering so far was recorded by a tick.
C10_Witness ==
    /\ op.kind = "tick" /\ op.ok /\ op.due
    /\ calls = 1 /\ Len(watering_history) = 1
    /\ last_watered >= startup + Period

====
